---- MODULE Spec2Model ----
(***************************************************************************)
(* Model of the Orbital Defence Platform (src/odp.py), event-driven        *)
(* variant: a Pushbullet listener delivers notifications to ODP.newEvent,  *)
(* which fetches the pushes modified after the time cursor, filters them   *)
(* and, for each remaining push, executes the named command and replies.   *)
(*                                                                         *)
(* Python strings that the code takes apart (the action specs) are         *)
(* sequences of one-character strings; strings that are only compared or   *)
(* interpolated (command names, device identifiers) are TLA+ strings.      *)
(***************************************************************************)
EXTENDS Integers, Sequences, FiniteSets, TLC

\* ---------------------------------------------------------------- bounds
\* Number of pushes that users send to the account during a run.
MaxPushes == 2
\* Number of notifications other than "a push changed" the provider sends.
MaxOtherEvents == 1
\* Number of interrupt signals the process receives.
MaxInterrupts == 1

\* ------------------------------------------------------- configuration
\* time.time() at construction: the initial value of the time cursor.
StartTime == 90

\* The device identifier of pb_device, the system's own device.
SelfIden == "odp"

\* config["authorised_src_idens"]
authorised_src_idens == {"abc", "tab", "ghost"}

\* pb.devices: the provider's device registry, in listing order.  "abc" and
\* "tab" carry the same nickname; "ghost" is an authorised identifier with no
\* registered device.
devices ==
  << [device_iden |-> "odp",  nickname |-> "ODP"],
     [device_iden |-> "abc",  nickname |-> "Phone"],
     [device_iden |-> "tab",  nickname |-> "Phone"],
     [device_iden |-> "evil", nickname |-> "Tablet"] >>

\* The pushes the provider already holds when the process starts: modified
\* before the start time and exactly at it.
OldPushes ==
  << [iden |-> 2, body |-> "reboot", source_device_iden |-> "abc",
      target_device_iden |-> "odp", modified |-> StartTime],
     [iden |-> 1, body |-> "web_up", source_device_iden |-> "abc",
      target_device_iden |-> "odp", modified |-> StartTime - 1] >>

\* A cursor that starts at the epoch.
InitialCursorEpoch == 0

\* Lines 60-61: the time cursor starts at the process start time.
InitialCursor == StartTime

\* The value of a missing key / a function that falls off its end.
NoneName == "<None>"

\* config["commands"]: command name -> action spec.
commands ==
  [ reboot   |-> <<"s","h","u","t","d","o","w","n"," ","-","r"," ","n","o","w">>,
    web_up   |-> <<"d","o","c","k","e","r","-","s","t","a","r","t",":","w","e","b","1">>,
    web_down |-> <<"d","o","c","k","e","r","-","s","t","o","p",":","w","e","b","1">> ]

\* The pushes users send, as (body, source device, target device): every
\* registered command name and an unregistered one from an authorised,
\* registered sender; a push from the authorised sender without a device and
\* one from the authorised sender whose nickname is not unique; a push
\* failing the source check and a push failing the target check (the
\* notes ODP itself pushes fail both).
Sendable ==
  { [body |-> b, source |-> "abc", target |-> "odp"] :
      b \in {"reboot", "web_up", "nonexistent"} }
  \cup { [body |-> b, source |-> "ghost", target |-> "odp"] :
          b \in {"nonexistent"} }
  \cup { [body |-> "web_down", source |-> "tab", target |-> "odp"],
         [body |-> "reboot", source |-> "evil", target |-> "odp"],
         [body |-> "reboot", source |-> "abc", target |-> "abc"] }

\* Exit statuses a spawned process can return.
ExitStatuses == {0, 1}

\* Notifications the listener hands to on_push ("nop" never reaches it).
TicklePush == [type |-> "tickle", subtype |-> "push"]
OtherEvents == { [type |-> "tickle", subtype |-> "device"], [type |-> "push"] }

\* What a queued notification may turn out to be when the listener hands it
\* to on_push: the queue keeps whether it tells of a changed push or not.
NotificationsOf(kind) ==
  IF kind = "push changed" THEN { TicklePush } ELSE OtherEvents

\* A test that looks at the type of the notification only.
IsPushChangedTypeOnly(event) == event.type = "tickle"

\* Line 109: the notification says that a push changed.
IsPushChanged(event) == event.type = "tickle" /\ event.subtype = "push"

\* ------------------------------------------------------ Python values
PyNone == [type |-> "NoneType", val |-> 0]
PyInt(n) == [type |-> "int", val |-> n]
\* Truth value of a Python object: None and 0 are false.
Truthy(v) == v.type = "int" /\ v.val # 0

\* The attributes a str object has, among those the code asks for.
StrAttrs == {"startswith", "split"}

\* str.startswith as the dispatch would use it: s begins with prefix.
StartsWith(s, prefix) ==
  /\ Len(s) >= Len(prefix)
  /\ SubSeq(s, 1, Len(prefix)) = prefix

\* s[n:]
SliceFrom(s, n) == SubSeq(s, n + 1, Len(s))

\* str.split() with no argument: the maximal runs of non-blank characters.
RECURSIVE SplitAcc(_, _, _)
SplitAcc(s, cur, acc) ==
  IF s = <<>> THEN (IF cur = <<>> THEN acc ELSE Append(acc, cur))
  ELSE IF Head(s) = " "
       THEN SplitAcc(Tail(s), <<>>, IF cur = <<>> THEN acc ELSE Append(acc, cur))
       ELSE SplitAcc(Tail(s), Append(cur, Head(s)), acc)
Split(s) == SplitAcc(s, <<>>, <<>>)

DockerStartPrefix == <<"d","o","c","k","e","r","-","s","t","a","r","t",":">>
DockerStopPrefix == <<"d","o","c","k","e","r","-","s","t","o","p",":">>

\* ------------------------------------------------------------- state
VARIABLES
  server_pushes,  \* the provider's pushes, newest first
  clock,          \* the provider's clock: the latest modification timestamp
  events,         \* notifications on their way to the listener, oldest first:
                  \* "push changed" or "other"
  others,         \* how many non-push notifications were sent
  time_cursor,    \* ODP.time_cursor
  show_devices,   \* options.show_devices
  pc,             \* "listening", "exec" (line 138), "reply" (line 145),
                  \* "closed" (listener closed) or "exit(0)" (sys.exit(0))
  printed,        \* the devices listed on standard output
  intr,           \* the interrupt signals received, and where they arrived
  batch,          \* the pushes processPushes still has to go through
  msg,            \* the local msg of processPushes
  execLog,        \* identifiers of the pushes executeCommand was called for
  runLog,         \* the runners invoked: process spawns and container actions
  replyLog,       \* the replies attempted (lines 145-148) and their outcome
  excLog,         \* the exceptions that left executeCommand (caught at 141)
  fetchLog        \* one record per get_pushes call

vars == << server_pushes, clock, events, others, time_cursor, show_devices, pc,
           printed, intr, batch, msg, execLog, runLog, replyLog, excLog,
           fetchLog >>

\* ---------------------------------------------------------- helpers
Max(a, b) == IF a >= b THEN a ELSE b

SeqToSet(s) == { s[i] : i \in DOMAIN s }

\* A fetch that ignores its lower bound.
get_pushes_all(modified_after) == server_pushes

\* pb.get_pushes(modified_after=t): the pushes modified after t, newest first.
get_pushes(modified_after) ==
  SelectSeq(server_pushes, LAMBDA p: p.modified > modified_after)

\* The maximum of the fetched timestamps alone, 0 for an empty batch.
RECURSIVE NewCursorFromZero(_, _)
NewCursorFromZero(cursor, allPushes) ==
  IF allPushes = <<>> THEN 0
  ELSE Max(Head(allPushes).modified, NewCursorFromZero(cursor, Tail(allPushes)))

\* The same fold, but only pushes that pass the filter move the cursor.
RECURSIVE NewCursorOurs(_, _)
NewCursorOurs(cursor, allPushes) ==
  IF allPushes = <<>> THEN cursor
  ELSE NewCursorOurs(
         IF /\ Head(allPushes).target_device_iden = SelfIden
            /\ Head(allPushes).source_device_iden \in authorised_src_idens
         THEN Max(cursor, Head(allPushes).modified) ELSE cursor,
         Tail(allPushes))

\* Lines 119-120: fold max over the fetched pushes, starting at the cursor.
RECURSIVE NewCursor(_, _)
NewCursor(cursor, allPushes) ==
  IF allPushes = <<>> THEN cursor
  ELSE NewCursor(Max(cursor, Head(allPushes).modified), Tail(allPushes))

\* A filter that checks the target only.
IsOurPushTargetOnly(x) ==
  x.target_device_iden = SelfIden

\* Lines 123-127: the authorisation filter.
IsOurPush(x) ==
  /\ x.target_device_iden = SelfIden
  /\ x.source_device_iden \in authorised_src_idens

our_pushes(allPushes) == SelectSeq(allPushes, IsOurPush)

\* Lines 100-104: the nickname of the first device with this identifier,
\* None when the loop ends without a match.
RECURSIVE NameFromIden(_, _)
NameFromIden(devs, iden) ==
  IF devs = <<>> THEN NoneName
  ELSE IF iden = Head(devs).device_iden THEN Head(devs).nickname
       ELSE NameFromIden(Tail(devs), iden)
deviceNameFromIden(iden) == NameFromIden(devices, iden)

\* pb.get_device(nickname): the first device with this nickname; raises
\* InvalidKeyError when there is none.
RECURSIVE DeviceByName(_, _)
DeviceByName(devs, nickname) ==
  IF devs = <<>> THEN [raised |-> TRUE, device_iden |-> NoneName]
  ELSE IF Head(devs).nickname = nickname
       THEN [raised |-> FALSE, device_iden |-> Head(devs).device_iden]
       ELSE DeviceByName(Tail(devs), nickname)

get_device(nickname) == DeviceByName(devices, nickname)

\* Lines 168-176: a container action; the method returns None.
dockerStart(container) ==
  [raised |-> FALSE, exc |-> "", value |-> PyNone,
   runs |-> << [kind |-> "docker-start", arg |-> container] >>]
dockerStop(container) ==
  [raised |-> FALSE, exc |-> "", value |-> PyNone,
   runs |-> << [kind |-> "docker-stop", arg |-> container] >>]

\* Line 166: subprocess.call(argv, shell=False) returns the exit status.
subprocess_call(argv, status) ==
  [raised |-> FALSE, exc |-> "", value |-> PyInt(status),
   runs |-> << [kind |-> "process", arg |-> argv] >>]

Raise(exc) == [raised |-> TRUE, exc |-> exc, value |-> PyNone, runs |-> <<>>]

\* An executor whose lookup miss returns None instead of raising.
executeCommandNoRaise(command, status) ==
  IF command \notin DOMAIN commands THEN
    [raised |-> FALSE, exc |-> "", value |-> PyNone, runs |-> <<>>]
  ELSE Raise("AttributeError")

\* Lines 150-166.  status is the exit status the spawned process would give.
\* exec_cmd is a str, and str has no attribute starts_with: evaluating line
\* 159 raises AttributeError before any runner is chosen.
executeCommand(command, status) ==
  IF command \notin DOMAIN commands THEN Raise("ValueError")
  ELSE LET exec_cmd == commands[command] IN
    IF "starts_with" \notin StrAttrs THEN Raise("AttributeError")
    ELSE IF StartsWith(exec_cmd, DockerStartPrefix)
         THEN dockerStart(SliceFrom(exec_cmd, 13))
    ELSE IF StartsWith(exec_cmd, DockerStopPrefix)
         THEN dockerStop(SliceFrom(exec_cmd, 12))
    ELSE subprocess_call(Split(exec_cmd), status)

\* A reply text that ignores that executeCommand raised.
ResultMsgNoExcept(body, r) ==
  << "Command: '", body, "'. Result: ",
     IF Truthy(r.value) THEN "Failed" ELSE "Success" >>

\* Lines 137-144: the text of the reply.
ResultMsg(body, r) ==
  IF r.raised THEN << "Command '", body, "' exploded" >>
  ELSE << "Command: '", body, "'. Result: ",
          IF Truthy(r.value) THEN "Failed" ELSE "Success" >>

\* ------------------------------------------------------------- Init
\* Lines 83-92: with the listing flag the constructor prints the devices and
\* exits with status 0; otherwise it creates the listener and runs it.
PcAfterInitListen(show) == "listening"

PcAfterInit(show) == IF show THEN "exit(0)" ELSE "listening"

\* Lines 86-87: one line per device, nickname and identifier.
PrintedDevices(show) ==
  IF show THEN [i \in DOMAIN devices |->
                  << devices[i].nickname, devices[i].device_iden >>]
  ELSE <<>>

Init ==
  /\ server_pushes = OldPushes
  /\ clock = StartTime
  /\ events = <<>>
  /\ others = 0
  /\ time_cursor = InitialCursor
  /\ show_devices \in BOOLEAN
  /\ pc = PcAfterInit(show_devices)
  /\ printed = PrintedDevices(show_devices)
  /\ intr = <<>>
  /\ batch = <<>>
  /\ msg = <<>>
  /\ execLog = <<>>
  /\ runLog = <<>>
  /\ replyLog = <<>>
  /\ excLog = <<>>
  /\ fetchLog = <<>>

\* Pushes sent by users during the run (not the notes ODP itself pushes).
UserPushes ==
  SelectSeq(server_pushes,
            LAMBDA p: p.body # NoneName /\ p.modified > StartTime)

\* ---------------------------------------------------------- actions
\* (A closed listener receives nothing: what the provider does after the
\* listener was closed is not part of the run.)
\* A user sends a push: the provider records it with a fresh modification
\* timestamp and notifies the listener that a push changed.  Timestamps are
\* the provider's: each push gets its own, later than all earlier ones, and
\* keeps it.
UserSendsPush ==
  /\ pc # "closed"
  /\ Len(UserPushes) < MaxPushes
  /\ \E u \in Sendable :
       server_pushes' = << [iden |-> Len(server_pushes) + 1, body |-> u.body,
                            source_device_iden |-> u.source,
                            target_device_iden |-> u.target,
                            modified |-> clock + 1] >> \o server_pushes
  /\ clock' = clock + 1
  /\ events' = Append(events, "push changed")
  /\ UNCHANGED << others, time_cursor, show_devices, pc, printed, intr, batch,
                  msg, execLog, runLog, replyLog, excLog, fetchLog >>

\* The provider sends a notification that is not "a push changed".
OtherNotification ==
  /\ pc # "closed"
  /\ others < MaxOtherEvents
  /\ events' = Append(events, "other")
  /\ others' = others + 1
  /\ UNCHANGED << server_pushes, clock, time_cursor, show_devices, pc, printed,
                  intr, batch, msg, execLog, runLog, replyLog, excLog,
                  fetchLog >>

\* Where processPushes stands once `rest` is what is left of its loop.
NextPc(rest) == IF rest = <<>> THEN "listening" ELSE "exec"

\* A listener that hands over a notification while a callback is running.
ListenerReadyReentrant == pc \in {"listening", "exec", "reply"}

\* Lines 94-96: run_forever runs on the calling thread and the code starts no
\* other thread, so on_push is called only when the previous call returned.
ListenerReady == pc = "listening"

\* Lines 106-128 and 130-132: the listener hands the next notification to
\* newEvent; a "tickle"/"push" runs updatePushes up to the loop of
\* processPushes.
newEvent ==
  /\ ListenerReady
  /\ events # <<>>
  /\ \E event \in NotificationsOf(Head(events)) :
       /\ events' = Tail(events)
       /\ IF IsPushChanged(event)
          THEN LET allPushes == get_pushes(time_cursor)
                   cursor == NewCursor(time_cursor, allPushes)
                   ours == our_pushes(allPushes) IN
                 /\ time_cursor' = cursor
                 /\ fetchLog' = Append(fetchLog,
                                  [after |-> time_cursor,
                                   all |-> allPushes,
                                   cursor |-> cursor])
                 /\ batch' = ours
                 /\ pc' = NextPc(ours)
          ELSE UNCHANGED << time_cursor, fetchLog, batch, pc >>
  /\ UNCHANGED << server_pushes, clock, others, show_devices, printed, intr,
                  msg, execLog, runLog, replyLog, excLog >>

\* Lines 135-144: executeCommand on the body of the current push.
ExecuteStep ==
  /\ pc = "exec"
  /\ LET push == Head(batch) IN
       \E status \in ExitStatuses :
         LET r == executeCommand(push.body, status) IN
           /\ msg' = ResultMsg(push.body, r)
           /\ execLog' = Append(execLog, push.iden)
           /\ runLog' = runLog \o
                [i \in 1..Len(r.runs) |->
                   [for |-> push.iden, kind |-> r.runs[i].kind,
                    arg |-> r.runs[i].arg, value |-> r.value]]
           /\ excLog' = IF r.raised
                        THEN Append(excLog, [for |-> push.iden, exc |-> r.exc])
                        ELSE excLog
  /\ pc' = "reply"
  /\ UNCHANGED << server_pushes, clock, events, others, time_cursor,
                  show_devices, printed, intr, batch, replyLog, fetchLog >>

\* An error in the callback that ends the listener.
PcAfterCallbackErrorClosed == "closed"

\* Lines 94-98 and 145-148: an exception other than KeyboardInterrupt that
\* leaves newEvent is not handled by ODP; the listener's callback wrapper
\* logs it and the listener goes on listening.
PcAfterCallbackError == "listening"

\* Lines 145-148: resolve the source device and push the note.  get_device
\* raises when no device carries the resolved name, and push_note can fail
\* to deliver.  An exception raised here leaves processPushes, updatePushes
\* and newEvent; the listener's callback wrapper logs it and goes on
\* listening.
ReplyStep ==
  /\ pc = "reply"
  /\ LET push == Head(batch)
         src_name == deviceNameFromIden(push.source_device_iden)
         src_device == get_device(src_name)
         attempt(outcome) == [for |-> push.iden,
                              device |-> src_device.device_iden,
                              title |-> msg, outcome |-> outcome,
                              note |-> IF outcome = "delivered"
                                       THEN Len(server_pushes) + 1 ELSE 0] IN
       IF src_device.raised
       THEN /\ replyLog' = Append(replyLog, attempt("InvalidKeyError"))
            /\ batch' = <<>>
            /\ pc' = PcAfterCallbackError
            /\ UNCHANGED << server_pushes, clock, events >>
       ELSE \E delivered \in BOOLEAN :
              IF delivered
              THEN /\ server_pushes' =
                        << [iden |-> Len(server_pushes) + 1, body |-> NoneName,
                            title |-> msg,
                            source_device_iden |-> NoneName,
                            target_device_iden |-> src_device.device_iden,
                            modified |-> clock + 1] >> \o server_pushes
                   /\ clock' = clock + 1
                   /\ events' = Append(events, "push changed")
                   /\ replyLog' = Append(replyLog, attempt("delivered"))
                   /\ batch' = Tail(batch)
                   /\ pc' = NextPc(Tail(batch))
              ELSE /\ replyLog' = Append(replyLog, attempt("PushError"))
                   /\ batch' = <<>>
                   /\ pc' = PcAfterCallbackError
                   /\ UNCHANGED << server_pushes, clock, events >>
  /\ msg' = <<>>
  /\ UNCHANGED << others, time_cursor, show_devices, printed, intr,
                  execLog, runLog, excLog, fetchLog >>

\* Lines 94-98 and 137-148: an interrupt signal raises KeyboardInterrupt in
\* whatever the main thread is running.  While the listener waits, or during
\* the reply (lines 145-148), it leaves run_forever and the listener is closed
\* (line 98); what was left of the batch is dropped.  During the execution of
\* a command it is caught by the bare except at line 141 like any other
\* exception: the reply text is the exploded variant and the loop goes on.
Interrupt ==
  /\ Len(intr) < MaxInterrupts
  /\ pc \in {"listening", "exec", "reply"}
  /\ intr' = Append(intr, [at |-> pc, fetches |-> Len(fetchLog),
                           push |-> IF batch = <<>> THEN 0
                                    ELSE Head(batch).iden])
  /\ CASE pc = "listening" ->
            /\ pc' = "closed"
            /\ UNCHANGED << batch, msg, execLog, excLog, replyLog >>
       [] pc = "exec" ->
            /\ msg' = ResultMsg(Head(batch).body, Raise("KeyboardInterrupt"))
            /\ execLog' = Append(execLog, Head(batch).iden)
            /\ excLog' = Append(excLog, [for |-> Head(batch).iden,
                                         exc |-> "KeyboardInterrupt"])
            /\ pc' = "reply"
            /\ UNCHANGED << batch, replyLog >>
       [] pc = "reply" ->
            /\ replyLog' = Append(replyLog,
                              [for |-> Head(batch).iden, device |-> NoneName,
                               title |-> msg, outcome |-> "KeyboardInterrupt",
                               note |-> 0])
            /\ batch' = <<>>
            /\ msg' = <<>>
            /\ pc' = "closed"
            /\ UNCHANGED << execLog, excLog >>
  /\ UNCHANGED << server_pushes, clock, events, others, time_cursor,
                  show_devices, printed, runLog, fetchLog >>

Next ==
  \/ UserSendsPush
  \/ OtherNotification
  \/ newEvent
  \/ ExecuteStep
  \/ ReplyStep

\* The runs in which the process receives no interrupt signal.
Spec == Init /\ [][Next]_vars

NextInterrupt ==
  \/ UserSendsPush
  \/ OtherNotification
  \/ newEvent
  \/ ExecuteStep
  \/ ReplyStep
  \/ Interrupt

\* The runs in which interrupt signals may arrive at any point.
SpecInterrupt == Init /\ [][NextInterrupt]_vars

TypeOK ==
  /\ pc \in {"listening", "exec", "reply", "closed", "exit(0)"}
  /\ time_cursor \in StartTime..clock
  /\ (pc \in {"exec", "reply"}) <=> batch # <<>>
  /\ show_devices => pc = "exit(0)"

\* ------------------------------------------------- reading the history
ServerSet == SeqToSet(server_pushes)
\* Identifiers are handed out in order and the list is newest first.
PushOf(iden) == server_pushes[Len(server_pushes) - iden + 1]

\* The pushes get_pushes has returned so far.
Fetched == UNION { SeqToSet(fetchLog[i].all) : i \in DOMAIN fetchLog }

\* What the filter is meant to let through, stated on the push itself.
Qualifies(p) ==
  /\ p.target_device_iden = SelfIden
  /\ p.source_device_iden \in authorised_src_idens

ExecCount(iden) == Cardinality({ i \in DOMAIN execLog : execLog[i] = iden })
\* Runs of the reply step for a push, and those that delivered a note.
ReplyAttempts(iden) ==
  Cardinality({ i \in DOMAIN replyLog : replyLog[i].for = iden })
ReplyCount(iden) ==
  Cardinality({ i \in DOMAIN replyLog :
                  replyLog[i].for = iden /\ replyLog[i].outcome = "delivered" })
RunsFor(iden) == { i \in DOMAIN runLog : runLog[i].for = iden }

RECURSIVE SetMax(_)
SetMax(S) ==
  IF Cardinality(S) = 1 THEN CHOOSE x \in S : TRUE
  ELSE LET x == CHOOSE y \in S : TRUE IN Max(x, SetMax(S \ {x}))

ExplodedMsg(body) == << "Command '", body, "' exploded" >>
SuccessMsg(body) == << "Command: '", body, "'. Result: ", "Success" >>
FailedMsg(body) == << "Command: '", body, "'. Result: ", "Failed" >>

\* ---------------------------------------------------------------- C1
\* C1: a push whose source is outside the authorised set or whose target is
\* not the system's own device never reaches processPushes, is never handed
\* to executeCommand and is never replied to.
C1_OnlyAuthorisedProcessed ==
  /\ \A i \in DOMAIN batch : Qualifies(batch[i])
  /\ \A i \in DOMAIN execLog : Qualifies(PushOf(execLog[i]))
  /\ \A i \in DOMAIN replyLog : Qualifies(PushOf(replyLog[i].for))
  /\ \A p \in ServerSet :
       p.body = NoneName => \E i \in DOMAIN replyLog :
                              /\ replyLog[i].outcome = "delivered"
                              /\ replyLog[i].title = p.title
                              /\ Qualifies(PushOf(replyLog[i].for))
  /\ \A i \in DOMAIN runLog : Qualifies(PushOf(runLog[i].for))

\* Fetches have returned a push for the system's device from an unauthorised
\* source, a push for another device, and a qualifying push that was executed
\* and replied to.
C1_Witness ==
  /\ \E p \in Fetched : p.target_device_iden = SelfIden
                        /\ p.source_device_iden \notin authorised_src_idens
  /\ \E p \in Fetched : p.target_device_iden # SelfIden
  /\ execLog # <<>>
  /\ replyLog # <<>>
  /\ pc = "listening"

\* ---------------------------------------------------------------- C2
\* (C2, C4, C9 and C11 are stated for runs that received no interrupt signal.)
\* C2: once a cycle is over, every fetched push that passes the filter has
\* had exactly one executeCommand call and exactly one reply.  The reply is
\* counted as soon as it is attempted, so a note the provider fails to
\* deliver does not by itself break the statement.
C2_ExactlyOnce ==
  (pc = "listening" /\ intr = <<>>) =>
    \A p \in Fetched :
      Qualifies(p) => ExecCount(p.iden) = 1 /\ ReplyAttempts(p.iden) = 1

\* ---------------------------------------------------------------- C3
\* C3: no push is handed to executeCommand more than once; no push is
\* returned by two fetches; every fetch returns only pushes modified after
\* the cursor it was given, and that cursor is at least the timestamp of
\* every push an earlier fetch returned.
C3_NeverProcessedTwice ==
  /\ \A p \in ServerSet : ExecCount(p.iden) <= 1
  /\ \A i \in DOMAIN fetchLog :
       /\ \A k \in DOMAIN fetchLog[i].all :
            fetchLog[i].all[k].modified > fetchLog[i].after
       /\ \A j \in DOMAIN fetchLog :
            i < j =>
              /\ SeqToSet(fetchLog[i].all) \cap SeqToSet(fetchLog[j].all) = {}
              /\ \A k \in DOMAIN fetchLog[i].all :
                   fetchLog[i].all[k].modified <= fetchLog[j].after
  /\ \A p \in Fetched : p.modified <= time_cursor

\* Two cycles have run, the first executed a push, and that push is still on
\* the provider when the later fetch is made.
C3_Witness ==
  /\ Len(fetchLog) >= 2
  /\ execLog # <<>>
  /\ \E p \in SeqToSet(fetchLog[1].all) : ExecCount(p.iden) = 1
  /\ pc = "listening"

\* ---------------------------------------------------------------- C4
\* C4: no push is missed: when the listener is back to listening, every
\* qualifying push recorded after startup that a fetch has covered (its
\* timestamp is at or below the cursor) has been executed and its reply
\* attempted.
C4_NoneMissed ==
  (pc = "listening" /\ intr = <<>>) =>
    \A p \in ServerSet :
      (Qualifies(p) /\ p.modified > StartTime /\ p.modified <= time_cursor)
        => (ExecCount(p.iden) >= 1 /\ ReplyAttempts(p.iden) >= 1)

\* ---------------------------------------------------------------- C5
\* C5: the time cursor never decreases.
C5_CursorMonotone == [][time_cursor' >= time_cursor]_vars

\* The cursor has advanced, and a later fetch returned nothing.
C5_Witness ==
  /\ time_cursor > StartTime
  /\ \E i \in DOMAIN fetchLog : i > 1 /\ fetchLog[i].all = <<>>

\* ---------------------------------------------------------------- C6
\* C6: after a fetch the cursor is the maximum of its previous value and the
\* timestamps of all pushes the fetch returned, qualifying or not, and the
\* next fetch asks for the pushes modified after exactly that value.
C6_CursorIsMaxOfBatch ==
  \A i \in DOMAIN fetchLog :
    /\ fetchLog[i].cursor =
         SetMax({fetchLog[i].after} \cup
                { fetchLog[i].all[k].modified : k \in DOMAIN fetchLog[i].all })
    /\ i = 1 => fetchLog[i].after = StartTime
    /\ i < Len(fetchLog) => fetchLog[i + 1].after = fetchLog[i].cursor
    /\ i = Len(fetchLog) => time_cursor = fetchLog[i].cursor

\* A fetch returned two pushes, the newest of which does not qualify, and a
\* later fetch was made.
C6_Witness ==
  \E i \in DOMAIN fetchLog :
    /\ i < Len(fetchLog)
    /\ Len(fetchLog[i].all) >= 2
    /\ ~Qualifies(fetchLog[i].all[1])
    /\ Qualifies(fetchLog[i].all[2])
    /\ fetchLog[i].cursor = fetchLog[i].all[1].modified
    /\ fetchLog[i + 1].after = fetchLog[i].all[1].modified

\* ---------------------------------------------------------------- C7
\* C7: the reply to a push naming a registered command reflects the outcome
\* of its runner: for a plain shell spec one process was run and the reply is
\* the Success text on exit status zero and the Failed text otherwise; for a
\* container action the reply is the Success text.
C7_ReplyReflectsExitStatus ==
  \A i \in DOMAIN replyLog :
    LET p == PushOf(replyLog[i].for) IN
      (replyLog[i].outcome = "delivered" /\ p.body \in DOMAIN commands) =>
        IF p.body = "reboot"
        THEN \E k \in RunsFor(p.iden) :
               /\ runLog[k].kind = "process"
               /\ replyLog[i].title =
                    (IF runLog[k].value = PyInt(0)
                     THEN SuccessMsg(p.body) ELSE FailedMsg(p.body))
        ELSE replyLog[i].title = SuccessMsg(p.body)

\* ---------------------------------------------------------------- C8
\* C8: every executeCommand call for a registered command invokes exactly
\* one runner, chosen by the prefix of the action spec: container-start on
\* web1, container-stop on web1, or a process with the spec split on blanks.
C8_OneRunnerByPrefix ==
  \A i \in DOMAIN execLog :
    LET p == PushOf(execLog[i]) IN
      p.body \in DOMAIN commands =>
        /\ Cardinality(RunsFor(p.iden)) = 1
        /\ \A k \in RunsFor(p.iden) :
             CASE p.body = "web_up" ->
                    runLog[k].kind = "docker-start"
                    /\ runLog[k].arg = <<"w","e","b","1">>
               [] p.body = "web_down" ->
                    runLog[k].kind = "docker-stop"
                    /\ runLog[k].arg = <<"w","e","b","1">>
               [] OTHER ->
                    runLog[k].kind = "process"
                    /\ runLog[k].arg = << <<"s","h","u","t","d","o","w","n">>,
                                          <<"-","r">>, <<"n","o","w">> >>

\* ---------------------------------------------------------------- C9
\* C9: a lookup miss does not end the batch: once the cycle is over, every
\* push that came after a push with an unregistered body in the same batch
\* has been executed and its reply attempted.
C9_LookupMissKeepsBatch ==
  (pc = "listening" /\ intr = <<>>) =>
    \A f \in DOMAIN fetchLog :
      LET ours == SelectSeq(fetchLog[f].all, Qualifies) IN
        \A i \in DOMAIN ours, j \in DOMAIN ours :
          (i < j /\ ours[i].body \notin DOMAIN commands)
            => (ExecCount(ours[j].iden) >= 1 /\ ReplyAttempts(ours[j].iden) >= 1)

\* ---------------------------------------------------------------- C10
\* C10: for a push whose body is not in the command registry no runner is
\* invoked (no process, no container action), the reply text built for it is
\* the exploded variant, and so is every reply delivered for it.
C10_LookupMissExplodes ==
  /\ \A i \in DOMAIN execLog :
       PushOf(execLog[i]).body \notin DOMAIN commands
         => RunsFor(execLog[i]) = {}
  /\ (pc = "reply" /\ Head(batch).body \notin DOMAIN commands)
       => msg = ExplodedMsg(Head(batch).body)
  /\ \A i \in DOMAIN replyLog :
       LET p == PushOf(replyLog[i].for) IN
         p.body \notin DOMAIN commands
           => replyLog[i].title = ExplodedMsg(p.body)

\* A reply was delivered for a push whose body is not a registered command.
C10_Witness ==
  \E i \in DOMAIN replyLog :
    /\ replyLog[i].outcome = "delivered"
    /\ PushOf(replyLog[i].for).body = "nonexistent"
    /\ replyLog[i].device = PushOf(replyLog[i].for).source_device_iden

\* ---------------------------------------------------------------- C11
\* C11: a failed reply does not end the batch: once the cycle is over, every
\* push that came after a push whose reply could not be resolved or
\* delivered, in the same batch, has been executed and its reply attempted.
C11_ReplyFailureIsolated ==
  (pc = "listening" /\ intr = <<>>) =>
    \A f \in DOMAIN fetchLog :
      LET ours == SelectSeq(fetchLog[f].all, Qualifies) IN
        \A i \in DOMAIN ours, j \in DOMAIN ours :
          (i < j /\ \E k \in DOMAIN replyLog :
                      /\ replyLog[k].for = ours[i].iden
                      /\ replyLog[k].outcome # "delivered")
            => (ExecCount(ours[j].iden) >= 1 /\ ReplyAttempts(ours[j].iden) >= 1)

C14_OnlyPushTickleFetches ==
  [][ /\ (fetchLog' # fetchLog \/ time_cursor' # time_cursor)
         => /\ events # <<>>
            /\ Head(events) = "push changed"
            /\ events' = Tail(events)
      /\ (events # <<>> /\ events' = Tail(events))
         => IF Head(events) = "push changed"
            THEN /\ Len(fetchLog') = Len(fetchLog) + 1
                 /\ fetchLog'[Len(fetchLog')].after = time_cursor
                 /\ SeqToSet(fetchLog'[Len(fetchLog')].all)
                      = { q \in ServerSet : q.modified > time_cursor }
            ELSE UNCHANGED << time_cursor, fetchLog, execLog, runLog,
                              replyLog, batch, pc, server_pushes >>
    ]_vars

\* Another notification was handled while a push was waiting on the provider,
\* and nothing was fetched.
C14_Witness ==
  /\ others >= 1
  /\ events # <<>>
  /\ \A i \in DOMAIN events : events[i] = "push changed"
  /\ fetchLog = <<>>
  /\ \E p \in ServerSet : Qualifies(p) /\ p.modified > time_cursor

\* ---------------------------------------------------------------- C15
\* C15: after an interrupt signal the listener is closed, the push that was
\* being processed when the signal arrived has been executed and its reply
\* delivered or refused by the provider (not cut short), and no fetch is made
\* after the signal.
C15_CleanStop ==
  \A i \in DOMAIN intr :
    /\ Len(fetchLog) = intr[i].fetches
    /\ pc = "closed" \/ (pc \in {"exec", "reply"} /\ intr[i].at # "listening")
    /\ (pc = "closed" /\ intr[i].push # 0)
         => /\ ExecCount(intr[i].push) = 1
            /\ \E k \in DOMAIN replyLog :
                 /\ replyLog[k].for = intr[i].push
                 /\ replyLog[k].outcome # "KeyboardInterrupt"

\* ---------------------------------------------------------------- C16
\* C16: one cycle at a time: a notification is taken from the listener, a
\* fetch is made and the cursor is written only when no batch is being
\* processed, and one notification is taken at a time.
C16_OneCycleAtATime ==
  [][ (\/ fetchLog' # fetchLog
       \/ time_cursor' # time_cursor
       \/ Len(events') < Len(events))
      => /\ pc = "listening"
         /\ batch = <<>>
         /\ events' = Tail(events) ]_vars

\* A "push changed" notification is waiting while a batch is being processed.
C16_Witness ==
  /\ pc \in {"exec", "reply"}
  /\ events # <<>>
  /\ Head(events) = "push changed"
  /\ \E p \in ServerSet : Qualifies(p) /\ p.modified > time_cursor

\* ---------------------------------------------------------------- C17
\* C17: every reply that is delivered goes to the device whose identifier is
\* the source device identifier of the push it answers.
C17_ReplyToSource ==
  \A k \in DOMAIN replyLog :
    replyLog[k].outcome = "delivered"
      => replyLog[k].device = PushOf(replyLog[k].for).source_device_iden

\* ---------------------------------------------------------------- C18
\* C18: with the device-listing flag the process lists the devices and exits
\* with status 0; the listener is never created: no fetch, no execution and
\* no reply happens and the cursor never moves, whatever the provider holds
\* or sends.
C18_ListingOnly ==
  show_devices =>
    /\ pc = "exit(0)"
    /\ Len(printed) = Len(devices)
    /\ \A i \in DOMAIN devices :
         printed[i] = << devices[i].nickname, devices[i].device_iden >>
    /\ fetchLog = <<>>
    /\ execLog = <<>>
    /\ runLog = <<>>
    /\ replyLog = <<>>
    /\ batch = <<>>
    /\ time_cursor = StartTime

\* The flag is set, a qualifying push has arrived and its notification is
\* pending.
C18_Witness ==
  /\ show_devices
  /\ events # <<>>
  /\ \E p \in ServerSet : Qualifies(p) /\ p.modified > StartTime

\* ---------------------------------------------------------------- C19
\* C19: the cursor starts at the start time, so every fetch asks for pushes
\* modified after the start time or later, and a push modified at or before
\* the start time is never fetched, executed or replied to.
C19_NothingBeforeStart ==
  /\ time_cursor >= StartTime
  /\ \A f \in DOMAIN fetchLog : fetchLog[f].after >= StartTime
  /\ \A p \in ServerSet :
       p.modified <= StartTime
         => /\ p \notin Fetched
            /\ p \notin SeqToSet(batch)
            /\ ExecCount(p.iden) = 0
            /\ ReplyAttempts(p.iden) = 0

\* The provider holds qualifying pushes from before the start, fetches have
\* been made and a newer push was executed.
C19_Witness ==
  /\ \E p \in ServerSet : Qualifies(p) /\ p.modified = StartTime
  /\ \E p \in ServerSet : Qualifies(p) /\ p.modified < StartTime
  /\ Len(fetchLog) >= 2
  /\ execLog # <<>>

\* ---------------------------------------------------------------- C20
\* C20: the notes ODP pushes as replies are never processed: each reply note
\* is addressed to the device that sent the push it answers, which is not
\* the system's own device, so it never passes the filter, is never executed
\* and is never replied to.
C20_RepliesNeverProcessed ==
  \A p \in ServerSet :
    p.body = NoneName =>
      /\ \E k \in DOMAIN replyLog :
           /\ replyLog[k].outcome = "delivered"
           /\ replyLog[k].note = p.iden
           /\ p.target_device_iden
                = PushOf(replyLog[k].for).source_device_iden
      /\ p.target_device_iden # SelfIden
      /\ ~Qualifies(p)
      /\ p \notin SeqToSet(batch)
      /\ ExecCount(p.iden) = 0
      /\ ReplyAttempts(p.iden) = 0

====
